---- MODULE Spec2Model ----
(***************************************************************************)
(* Chain filtering stage of the MEM pipeline (src/filter-chains.cu):       *)
(* filter_chains groups the seeds of a chunk into chains, computes each    *)
(* chain's coverage (chain_coverage_kernel), sorts the chains by a         *)
(* (read, weight) key, flags the chains to keep (chain_filter_kernel) and   *)
(* compacts the chain tables.                                               *)
(*                                                                          *)
(* Arrays are functions over 0..size-1, as in the source.  A uint64 made of *)
(* two 32-bit halves is the pair <<hi, lo>>, compared lexicographically.    *)
(***************************************************************************)
EXTENDS Integers, Sequences, FiniteSets, TLC

VARIABLES
    options,            \* command_line_options: mask_level, chain_drop_ratio, min_seed_len
    chunk,              \* pipeline->chunk: read_begin, read_end, mem_begin, mem_end
    mems_chain,         \* mem->mems_chain: the chain id of every seed, in processing order
    mems,               \* mem->mems: span() of every MEM
    mems_index,         \* mem->mems_index: the processing order of the MEMs
    mem_chain_reads,    \* mem->chain_reads
    mem_chain_offsets,  \* mem->chain_offsets
    mem_chain_lengths,  \* mem->chain_lengths
    mem_n_chains,       \* mem->n_chains
    stats_n_chains,     \* pipeline->stats.n_chains
    pc,                 \* position inside filter_chains
    n_chains,           \* local n_chains of filter_chains
    chain_ranges,       \* local chain_ranges
    chain_weights,      \* local chain_weights
    chain_index,        \* local chain_index
    chain_flags,        \* local chain_flags
    n_filtered_chains,  \* local n_filtered_chains
    task,               \* one chain_filter_kernel thread per read: pc, begin, end, i, n
    passed,             \* per read: ranked positions i > begin whose inner scan ended without break
    oob_access,         \* an access outside an array's bounds has happened
    calls,              \* number of calls of filter_chains so far
    entry_stats,        \* stats.n_chains at the entry of the current call
    dom                 \* one evaluation of the dominance test of chain_filter_kernel

vars == <<options, chunk, mems_chain, mems, mems_index, mem_chain_reads,
          mem_chain_offsets, mem_chain_lengths, mem_n_chains, stats_n_chains,
          pc, n_chains, chain_ranges, chain_weights, chain_index, chain_flags,
          n_filtered_chains, task, passed, oob_access, calls, entry_stats, dom>>

----------------------------------------------------------------------------
(* Bounds *)

\* most seeds (MEMs) of a chunk
MaxMems == 3
\* largest read coordinate of a seed span
MaxCoord == 3
\* reads of a chunk: chunk.read_end - chunk.read_begin
NumReads == 2
\* chain sequence numbers per read (low half of a chain id)
ChainsPerRead == 2
\* largest small weight, and largest min_seed_len, the dominance test is tried on
DomMaxWeight == 8
DomSeedLen == 2
\* calls of filter_chains in a stream of chunks
MaxChunks == 2
\* most seeds of a chunk in a stream of chunks
StreamMems == 2
\* largest coordinate of a seed span in a stream of chunks
StreamCoord == 1

----------------------------------------------------------------------------
(* Plain helpers *)

Min(a, b) == IF a < b THEN a ELSE b
Max(a, b) == IF a > b THEN a ELSE b

EmptyArray == [k \in {} |-> 0]

\* a uint64 as <<high 32 bits, low 32 bits>>
U64Less(a, b) == a[1] < b[1] \/ (a[1] = b[1] /\ a[2] < b[2])

\* nvbio::hi_bits_functor<uint32,uint64>
hi_bits_functor(x) == x[1]

\* x & 0xFFFFFFFFu of a uint64
LoBits(x) == x[2]

----------------------------------------------------------------------------
(* Arithmetic of the device code: uint32 and float (24-bit significand) *)

\* 2^24: a float holds every integer below it exactly
FloatExact == 16777216

\* uint32(-1), the initial range.x; TLC's integers stop at 2^31 - 1,
\* and the value is only ever an operand of min() against a coordinate
UINT32_NONE == 2147483647

RECURSIVE Ulp(_, _)
\* the spacing of floats around x >= 0: the least power of two u >= from with x < u * 2^24
Ulp(x, from) == IF x < from * FloatExact THEN from ELSE Ulp(x, 2 * from)

\* round-to-nearest-even of x to a 24-bit significand
RoundSig(x) ==
    LET u == Ulp(x, 1)
        q == x \div u
        r == x % u
    IN  IF 2 * r > u \/ (2 * r = u /\ q % 2 = 1) THEN (q + 1) * u ELSE q * u

\* conversion uint32 -> float
FloatOfU32(n) == RoundSig(n)

\* float(n) * r for a float r = r.num / r.den (r.den a power of two), times r.den
FloatMulScaled(n, r) == RoundSig(FloatOfU32(n) * r.num)

\* a < n * r, as the device evaluates it: both sides floats
U32LessFloatMul(a, n, r) == FloatOfU32(a) * r.den < FloatMulScaled(n, r)

\* a >= n * r, as the device evaluates it
U32GeqFloatMul(a, n, r) == FloatOfU32(a) * r.den >= FloatMulScaled(n, r)

\* (a - b) mod 2^32 >= t.  For a < b the difference wraps to 2^32 - (b - a),
\* which is above 2^31 for every b - a and every t TLC can represent.
U32SubGeq(a, b, t) == IF a >= b THEN a - b >= t ELSE TRUE

----------------------------------------------------------------------------
(* Library primitives used by filter_chains *)

\* nvbio::lower_bound( v, a, n ) - a, on a sorted range of uint32
lower_bound(v, a, n) ==
    CHOOSE p \in 0..n : /\ \A k \in 0..(p - 1) : a[k] < v
                        /\ (p < n => ~(a[p] < v))

\* nvbio::upper_bound( v, a, n ) - a, on a sorted range of uint32
upper_bound(v, a, n) ==
    CHOOSE p \in 0..n : /\ \A k \in 0..(p - 1) : ~(v < a[k])
                        /\ (p < n => v < a[p])

\* thrust::lower_bound of one uint64 key in a sorted range of n keys
lower_bound64(v, a, n) ==
    CHOOSE p \in 0..n : /\ \A k \in 0..(p - 1) : U64Less(a[k], v)
                        /\ (p < n => ~U64Less(a[p], v))

\* cuda::runlength_encode: the positions at which a run of equal keys starts
RunStarts(n, keys) == {k \in 0..(n - 1) : k = 0 \/ keys[k] # keys[k - 1]}

\* the k-th (from 0) run start
RunStart(n, keys, k) ==
    CHOOSE s \in RunStarts(n, keys) :
        Cardinality({t \in RunStarts(n, keys) : t < s}) = k

\* cuda::runlength_encode: number of runs, the unique keys and their counts
runlength_encode(n, keys) ==
    LET nr == Cardinality(RunStarts(n, keys))
        start(k) == IF k < nr THEN RunStart(n, keys, k) ELSE n
    IN  [n_runs |-> nr,
         unique |-> [k \in 0..(nr - 1) |-> keys[start(k)]],
         counts |-> [k \in 0..(nr - 1) |-> start(k + 1) - start(k)]]

\* cuda::copy_flagged: the flagged items of input[0..n), in order, written to
\* the front of output; the rest of output is left as it was
FlaggedBefore(n, flags, k) == Cardinality({c \in 0..(k - 1) : flags[c] # 0})

copy_flagged(n, input, flags, output) ==
    LET nf == FlaggedBefore(n, flags, n)
        src(p) == CHOOSE c \in 0..(n - 1) :
                     flags[c] # 0 /\ FlaggedBefore(n, flags, c) = p
    IN  [n_out  |-> nf,
         output |-> [p \in DOMAIN output |->
                        IF p < nf THEN input[src(p)] ELSE output[p]]]

\* thrust::sort_by_key on uint64 keys: the orders it may produce, as permutations
\* perm with key[perm[0]] <= key[perm[1]] <= ...; equal keys in either order
SortOrders(n, keys) ==
    {perm \in [0..(n - 1) -> 0..(n - 1)] :
        /\ \A a, b \in 0..(n - 1) : a # b => perm[a] # perm[b]
        /\ \A a \in 0..(n - 2) : ~U64Less(keys[perm[a + 1]], keys[perm[a]])}

----------------------------------------------------------------------------
(* The inputs of the stage *)

\* a float option as the fraction num / den, den a power of two
Half == [num |-> 1, den |-> 2]
One  == [num |-> 1, den |-> 1]
ThreeQuarters == [num |-> 3, den |-> 4]

\* the option values the pipeline is run with
PipelineOptions ==
    {[mask_level |-> m, chain_drop_ratio |-> d, min_seed_len |-> 1] :
        m \in {Half, One}, d \in {Half}}

\* chain ids of the reads of a chunk: read id in the high half, sequence number in the low half
ChainIds == {<<r, s>> : r \in 0..(NumReads - 1), s \in 0..(ChainsPerRead - 1)}

\* the spans [x, y) a seed may have
Spans(maxc) == {sp \in (0..maxc) \X (0..maxc) : sp[1] < sp[2]}

\* the seeds of a chunk in processing order: chain ids ascending, and the seeds
\* of one chain by ascending left coordinate
SeedLists(maxm, maxc) ==
    UNION {
        {sd \in [0..(n - 1) -> [chain : ChainIds, span : Spans(maxc)]] :
            \A k \in 0..(n - 2) :
                /\ ~U64Less(sd[k + 1].chain, sd[k].chain)
                /\ (sd[k + 1].chain = sd[k].chain => sd[k].span[1] <= sd[k + 1].span[1])}
        : n \in 0..maxm}

\* the processing orders of n MEMs: as stored, or stored in reverse
IndexOrders(n) == {[k \in 0..(n - 1) |-> k], [k \in 0..(n - 1) |-> n - 1 - k]}

Size(a) == Cardinality(DOMAIN a)

n_reads == chunk.read_end - chunk.read_begin
n_mems  == chunk.mem_end - chunk.mem_begin

ChunkReads == chunk.read_begin..(chunk.read_end - 1)

IdleTask == [pc |-> "ready", begin |-> 0, end |-> 0, i |-> 0, n |-> 0]

NoDom == [state |-> "off", i_w |-> 0, j_w |-> 0, stop |-> FALSE]

----------------------------------------------------------------------------
(* filter_chains *)

\* the pipeline before the first chunk
InitPipeline ==
    /\ chunk = [read_begin |-> 0, read_end |-> 0, mem_begin |-> 0, mem_end |-> 0]
    /\ mems_chain = EmptyArray
    /\ mems = EmptyArray
    /\ mems_index = EmptyArray
    /\ mem_chain_reads = EmptyArray
    /\ mem_chain_offsets = EmptyArray
    /\ mem_chain_lengths = EmptyArray
    /\ mem_n_chains = 0
    /\ stats_n_chains = 0
    /\ pc = "idle"
    /\ n_chains = 0
    /\ chain_ranges = EmptyArray
    /\ chain_weights = EmptyArray
    /\ chain_index = EmptyArray
    /\ chain_flags = EmptyArray
    /\ n_filtered_chains = 0
    /\ task = [r \in {} |-> IdleTask]
    /\ passed = [r \in {} |-> {}]
    /\ oob_access = FALSE
    /\ calls = 0
    /\ entry_stats = 0

Init ==
    /\ options \in PipelineOptions
    /\ InitPipeline
    /\ dom = NoDom

\* the pipeline hands filter_chains the chunk sd, stored in the order idx
Call(sd, idx) ==
    LET n == Size(sd) IN
    /\ chunk' = [read_begin |-> 0, read_end |-> NumReads, mem_begin |-> 0, mem_end |-> n]
    /\ mems_chain' = [k \in 0..(n - 1) |-> sd[k].chain]
    /\ mems_index' = idx
    /\ mems' = [m \in 0..(n - 1) |-> sd[CHOOSE k \in 0..(n - 1) : idx[k] = m].span]
    /\ pc' = "entry"
    /\ n_chains' = 0
    /\ chain_ranges' = EmptyArray
    /\ chain_weights' = EmptyArray
    /\ chain_index' = EmptyArray
    /\ chain_flags' = EmptyArray
    /\ n_filtered_chains' = 0
    /\ task' = [r \in 0..(NumReads - 1) |-> IdleTask]
    /\ passed' = [r \in 0..(NumReads - 1) |-> {}]
    /\ oob_access' = FALSE
    /\ calls' = calls + 1
    /\ entry_stats' = stats_n_chains
    /\ UNCHANGED <<options, mem_chain_reads, mem_chain_offsets, mem_chain_lengths,
                   mem_n_chains, stats_n_chains, dom>>

\* one call of filter_chains on a chunk of up to MaxMems seeds
BeginChunk ==
    /\ pc = "idle"
    /\ calls = 0
    /\ \E sd \in SeedLists(MaxMems, MaxCoord) :
         \E idx \in IndexOrders(Size(sd)) : Call(sd, idx)

\* the next call of a stream of up to MaxChunks chunks of up to StreamMems seeds
BeginStreamChunk ==
    /\ pc \in {"idle", "returned"}
    /\ calls < MaxChunks
    /\ \E sd \in SeedLists(StreamMems, StreamCoord) :
         \E idx \in IndexOrders(Size(sd)) : Call(sd, idx)

\* skip pathological cases
SkipEmpty ==
    /\ pc = "entry"
    /\ n_mems = 0
    /\ pc' = "returned"
    /\ UNCHANGED <<options, chunk, mems_chain, mems, mems_index, mem_chain_reads,
                   mem_chain_offsets, mem_chain_lengths, mem_n_chains, stats_n_chains,
                   n_chains, chain_ranges, chain_weights, chain_index, chain_flags,
                   n_filtered_chains, task, passed, oob_access, calls, entry_stats, dom>>

\* GroupChains with the offsets found by an upper bound search: the end of each run
GroupChainsUpperBound(nm, keys, rd, of, ln) ==
    LET rle   == runlength_encode(nm, keys)
        nc    == rle.n_runs
        grow  == nc > Size(ln)
        fresh == [k \in 0..(nc - 1) |-> 0]
        rd0   == IF grow THEN fresh ELSE rd
        of0   == IF grow THEN fresh ELSE of
        ln0   == IF grow THEN fresh ELSE ln
    IN  [n_chains       |-> nc,
         reserved_space |-> IF grow THEN nc ELSE Size(ln),
         chain_lengths  |-> [k \in DOMAIN ln0 |-> IF k < nc THEN rle.counts[k] ELSE ln0[k]],
         chain_offsets  |-> [k \in DOMAIN of0 |->
                                IF k < nc
                                THEN CHOOSE p \in 0..nm :
                                        /\ \A m \in 0..(p - 1) : ~U64Less(rle.unique[k], keys[m])
                                        /\ (p < nm => U64Less(rle.unique[k], keys[p]))
                                ELSE of0[k]],
         chain_reads    |-> [k \in DOMAIN rd0 |->
                                IF k < nc THEN hi_bits_functor(rle.unique[k]) ELSE rd0[k]]]

\* the chain tables of a chunk: unique chain ids, their counts, offsets and reads,
\* written over the first n_chains entries of the buffers rd, of, ln
GroupChains(nm, keys, rd, of, ln) ==
    LET rle   == runlength_encode(nm, keys)
        nc    == rle.n_runs
        grow  == nc > Size(ln)
        fresh == [k \in 0..(nc - 1) |-> 0]
        rd0   == IF grow THEN fresh ELSE rd
        of0   == IF grow THEN fresh ELSE of
        ln0   == IF grow THEN fresh ELSE ln
    IN  [n_chains       |-> nc,
         reserved_space |-> IF grow THEN nc ELSE Size(ln),
         chain_lengths  |-> [k \in DOMAIN ln0 |-> IF k < nc THEN rle.counts[k] ELSE ln0[k]],
         chain_offsets  |-> [k \in DOMAIN of0 |->
                                IF k < nc THEN lower_bound64(rle.unique[k], keys, nm) ELSE of0[k]],
         chain_reads    |-> [k \in DOMAIN rd0 |->
                                IF k < nc THEN hi_bits_functor(rle.unique[k]) ELSE rd0[k]]]

Group ==
    /\ pc = "entry"
    /\ n_mems # 0
    /\ LET g == GroupChains(n_mems, mems_chain, mem_chain_reads, mem_chain_offsets,
                            mem_chain_lengths) IN
        /\ n_chains' = g.n_chains
        /\ mem_chain_lengths' = g.chain_lengths
        /\ mem_chain_offsets' = g.chain_offsets
        /\ mem_chain_reads' = g.chain_reads
        /\ chain_ranges' = [k \in 0..(g.n_chains - 1) |-> <<0, 0>>]
        /\ chain_weights' = [k \in 0..(g.n_chains - 1) |-> <<0, 0>>]
        /\ chain_index' = [k \in 0..(g.reserved_space - 1) |-> 0]
    /\ pc' = "coverage"
    /\ UNCHANGED <<options, chunk, mems_chain, mems, mems_index, mem_n_chains,
                   stats_n_chains, chain_flags, n_filtered_chains, task, passed,
                   oob_access, calls, entry_stats, dom>>

----------------------------------------------------------------------------
(* chain_coverage_kernel *)

RECURSIVE CoverageLoopWholeSpan(_, _, _, _)
\* CoverageLoop adding the whole length of a span that passes the frontier
CoverageLoopWholeSpan(i, end, range, weight) ==
    IF i >= end THEN [range |-> range, weight |-> weight]
    ELSE LET span == mems[mems_index[i]]
             w    == IF span[1] >= range[2] THEN weight + (span[2] - span[1])
                     ELSE IF span[2] > range[2] THEN weight + (span[2] - span[1])
                     ELSE weight
         IN  CoverageLoopWholeSpan(i + 1, end,
                          <<Min(range[1], span[1]), Max(range[2], span[2])>>, w)

RECURSIVE CoverageLoop(_, _, _, _)
\* the loop over the seeds i..end-1 of a chain, from the state (range, weight)
CoverageLoop(i, end, range, weight) ==
    IF i >= end THEN [range |-> range, weight |-> weight]
    ELSE LET span == mems[mems_index[i]]
             w    == IF span[1] >= range[2] THEN weight + (span[2] - span[1])
                     ELSE IF span[2] > range[2] THEN weight + (span[2] - range[2])
                     ELSE weight
         IN  CoverageLoop(i + 1, end,
                          <<Min(range[1], span[1]), Max(range[2], span[2])>>, w)

\* the thread of chain chain_id: its range and its weight key
chain_coverage_kernel(chain_id) ==
    LET read  == mem_chain_reads[chain_id]
        begin == mem_chain_offsets[chain_id]
        end   == mem_chain_lengths[chain_id] + begin
        out   == CoverageLoop(begin, end, <<UINT32_NONE, 0>>, 0)
    IN  [range |-> out.range, weight |-> <<read, out.weight>>]

Coverage ==
    /\ pc = "coverage"
    /\ chain_ranges' = [c \in 0..(n_chains - 1) |-> chain_coverage_kernel(c).range]
    /\ chain_weights' = [c \in 0..(n_chains - 1) |-> chain_coverage_kernel(c).weight]
    /\ pc' = "sort"
    /\ UNCHANGED <<options, chunk, mems_chain, mems, mems_index, mem_chain_reads,
                   mem_chain_offsets, mem_chain_lengths, mem_n_chains, stats_n_chains,
                   n_chains, chain_index, chain_flags, n_filtered_chains, task, passed,
                   oob_access, calls, entry_stats, dom>>

----------------------------------------------------------------------------
(* sort the chains by weight *)

\* RankOrders sorting by the weight alone, the read id left out of the key
RankOrdersByWeight(n, keys) == SortOrders(n, [k \in 0..(n - 1) |-> <<0, LoBits(keys[k])>>])

\* the orders in which filter_chains may rank the chains with the keys keys
RankOrders(n, keys) == SortOrders(n, keys)

Sort ==
    /\ pc = "sort"
    /\ \E perm \in RankOrders(n_chains, chain_weights) :
        /\ chain_index' = [k \in DOMAIN chain_index |->
                              IF k < n_chains THEN perm[k] ELSE chain_index[k]]
        /\ chain_weights' = [k \in 0..(n_chains - 1) |-> chain_weights[perm[k]]]
    /\ chain_flags' = [k \in 0..(n_chains - 1) |-> 0]
    /\ pc' = "filter"
    /\ UNCHANGED <<options, chunk, mems_chain, mems, mems_index, mem_chain_reads,
                   mem_chain_offsets, mem_chain_lengths, mem_n_chains, stats_n_chains,
                   n_chains, chain_ranges, n_filtered_chains, task, passed,
                   oob_access, calls, entry_stats, dom>>

----------------------------------------------------------------------------
(* chain_filter_kernel: one thread per read of the chunk *)

\* the overlap of two chain ranges is significant
SignificantOverlap(i_span, j_span, mask_level) ==
    LET max_begin == Max(i_span[1], j_span[1])
        min_end   == Min(i_span[2], j_span[2])
        min_l     == Min(i_span[2] - i_span[1], j_span[2] - j_span[1])
    IN  /\ min_end > max_begin
        /\ U32GeqFloatMul(min_end - max_begin, min_l, mask_level)

\* Dominated with an inclusive relative test
DominatedInclusive(i_w, j_w, chain_drop_ratio, min_seed_len) ==
    /\ FloatOfU32(i_w) * chain_drop_ratio.den <= FloatMulScaled(j_w, chain_drop_ratio)
    /\ U32SubGeq(j_w, i_w, min_seed_len * 2)

\* the dominance test that ends the scan of the accepted chains
Dominated(i_w, j_w, chain_drop_ratio, min_seed_len) ==
    /\ U32LessFloatMul(i_w, j_w, chain_drop_ratio)
    /\ U32SubGeq(j_w, i_w, min_seed_len * 2)

RECURSIVE InnerScan(_, _, _, _)
\* the inner loop for chain i from position j with the bound begin + n:
\* where it ended, whether it marked chain i and whether it ended by break
InnerScan(i, j, bound, marked) ==
    IF j >= bound THEN [j |-> j, marked |-> marked, broke |-> FALSE]
    ELSE LET i_span == chain_ranges[chain_index[i]]
             i_w    == LoBits(chain_weights[i])
             j_span == chain_ranges[chain_index[j]]
             j_w    == LoBits(chain_weights[j])
         IN  IF SignificantOverlap(i_span, j_span, options.mask_level)
             THEN IF Dominated(i_w, j_w, options.chain_drop_ratio, options.min_seed_len)
                  THEN [j |-> j, marked |-> TRUE, broke |-> TRUE]
                  ELSE InnerScan(i, j + 1, bound, TRUE)
             ELSE InnerScan(i, j + 1, bound, marked)

\* the test after the inner loop that accepts chain i
ScanCompleted(j, begin, n) == j = n

\* the values a load of chain_index[p] may give: entries at and after n_chains
\* are not written by the sort, entries at and after the size are outside the
\* buffer; n_chains stands for every value that is no chain
LoadIndex(p) == IF p < n_chains THEN {chain_index[p]} ELSE 0..n_chains

\* chain_flags after the store chain_flags[c] = 1; a store at or after n_chains
\* lands outside the array
StoreFlag(flags, c) == IF c < n_chains THEN [flags EXCEPT ![c] = 1] ELSE flags

\* lines 96-107: the sub-range of the read, the first chain, n = 1
FilterStart(r) ==
    /\ pc = "filter"
    /\ task[r].pc = "ready"
    /\ LET begin == lower_bound(r, mem_chain_reads, n_chains)
           end   == upper_bound(r, mem_chain_reads, n_chains)
       IN  /\ \E c \in LoadIndex(begin) :
                /\ chain_flags' = StoreFlag(chain_flags, c)
                /\ oob_access' = (oob_access \/ begin >= n_chains \/ c >= n_chains)
           /\ task' = [task EXCEPT ![r] =
                          [pc |-> "loop", begin |-> begin, end |-> end, i |-> begin + 1, n |-> 1]]
    /\ UNCHANGED <<options, chunk, mems_chain, mems, mems_index, mem_chain_reads,
                   mem_chain_offsets, mem_chain_lengths, mem_n_chains, stats_n_chains,
                   pc, n_chains, chain_ranges, chain_weights, chain_index,
                   n_filtered_chains, passed, calls, entry_stats, dom>>

\* lines 109-142: one iteration of the outer loop
FilterIter(r) ==
    /\ pc = "filter"
    /\ task[r].pc = "loop"
    /\ task[r].i < task[r].end
    /\ LET t    == task[r]
           scan == InnerScan(t.i, t.begin, t.begin + t.n, FALSE)
           acc  == ScanCompleted(scan.j, t.begin, t.n)
       IN  /\ chain_flags' = IF scan.marked \/ acc
                             THEN StoreFlag(chain_flags, chain_index[t.i])
                             ELSE chain_flags
           /\ task' = [task EXCEPT ![r].i = t.i + 1,
                                   ![r].n = IF acc THEN t.n + 1 ELSE t.n]
           /\ passed' = [passed EXCEPT ![r] = IF scan.broke THEN @ ELSE @ \cup {t.i}]
    /\ UNCHANGED <<options, chunk, mems_chain, mems, mems_index, mem_chain_reads,
                   mem_chain_offsets, mem_chain_lengths, mem_n_chains, stats_n_chains,
                   pc, n_chains, chain_ranges, chain_weights, chain_index,
                   n_filtered_chains, oob_access, calls, entry_stats, dom>>

TaskDone(r) == task[r].pc = "loop" /\ task[r].i >= task[r].end

\* the kernel has completed: every thread ran to its end
FilterSync ==
    /\ pc = "filter"
    /\ \A r \in ChunkReads : TaskDone(r)
    /\ pc' = "compact_reads"
    /\ UNCHANGED <<options, chunk, mems_chain, mems, mems_index, mem_chain_reads,
                   mem_chain_offsets, mem_chain_lengths, mem_n_chains, stats_n_chains,
                   n_chains, chain_ranges, chain_weights, chain_index, chain_flags,
                   n_filtered_chains, task, passed, oob_access, calls, entry_stats, dom>>

----------------------------------------------------------------------------
(* compaction of the chain tables *)

\* CompactSwap without the swap: the table stays as it was
CompactNoSwap(table, scratch) ==
    LET cf == copy_flagged(n_chains, table, chain_flags, scratch)
    IN  [n_out |-> cf.n_out, table |-> table, scratch |-> cf.output]

\* copy_flagged of table into the scratch buffer, then swap: the new table and
\* the new scratch buffer
CompactSwap(table, scratch) ==
    LET cf == copy_flagged(n_chains, table, chain_flags, scratch)
    IN  [n_out |-> cf.n_out, table |-> cf.output, scratch |-> table]

CompactReads ==
    /\ pc = "compact_reads"
    /\ LET cs == CompactSwap(mem_chain_reads, chain_index) IN
        /\ n_filtered_chains' = cs.n_out
        /\ mem_chain_reads' = cs.table
        /\ chain_index' = cs.scratch
    /\ pc' = "compact_offsets"
    /\ UNCHANGED <<options, chunk, mems_chain, mems, mems_index,
                   mem_chain_offsets, mem_chain_lengths, mem_n_chains, stats_n_chains,
                   n_chains, chain_ranges, chain_weights, chain_flags,
                   task, passed, oob_access, calls, entry_stats, dom>>

CompactOffsets ==
    /\ pc = "compact_offsets"
    /\ LET cs == CompactSwap(mem_chain_offsets, chain_index) IN
        /\ mem_chain_offsets' = cs.table
        /\ chain_index' = cs.scratch
    /\ pc' = "compact_lengths"
    /\ UNCHANGED <<options, chunk, mems_chain, mems, mems_index, mem_chain_reads,
                   mem_chain_lengths, mem_n_chains, stats_n_chains,
                   n_chains, chain_ranges, chain_weights, chain_flags,
                   n_filtered_chains, task, passed, oob_access, calls, entry_stats, dom>>

\* the last compaction, the output number of chains and the statistics
CompactLengths ==
    /\ pc = "compact_lengths"
    /\ LET cs == CompactSwap(mem_chain_lengths, chain_index) IN
        /\ mem_chain_lengths' = cs.table
        /\ chain_index' = cs.scratch
    /\ mem_n_chains' = n_filtered_chains
    /\ stats_n_chains' = stats_n_chains + n_filtered_chains
    /\ pc' = "returned"
    /\ UNCHANGED <<options, chunk, mems_chain, mems, mems_index, mem_chain_reads,
                   mem_chain_offsets, n_chains, chain_ranges, chain_weights, chain_flags,
                   n_filtered_chains, task, passed, oob_access, calls, entry_stats, dom>>

----------------------------------------------------------------------------
(* Specifications *)

Stages ==
    \/ SkipEmpty
    \/ Group
    \/ Coverage
    \/ Sort
    \/ \E r \in ChunkReads : FilterStart(r)
    \/ \E r \in ChunkReads : FilterIter(r)
    \/ FilterSync
    \/ CompactReads
    \/ CompactOffsets
    \/ CompactLengths

Next == BeginChunk \/ Stages

Spec == Init /\ [][Next]_vars

NextStream == BeginStreamChunk \/ Stages

SpecStream == Init /\ [][NextStream]_vars

----------------------------------------------------------------------------
(* The dominance test of chain_filter_kernel on its own *)

\* the weights the test is tried on: small ones, and ones around 2^24 and 2^25
DomWeights ==
    (0..DomMaxWeight)
        \cup {FloatExact + k : k \in 0..4}
        \cup {2 * FloatExact + k : k \in 0..8}

DomOptions ==
    {[mask_level |-> Half, chain_drop_ratio |-> d, min_seed_len |-> m] :
        d \in {Half, ThreeQuarters, One}, m \in 0..DomSeedLen}

InitDom ==
    /\ options \in DomOptions
    /\ InitPipeline
    /\ dom \in {[state |-> "in", i_w |-> a, j_w |-> b, stop |-> FALSE] :
                   a \in DomWeights, b \in DomWeights}

\* lines 130-132 for a chain i and an accepted chain j with significant overlap
DomTest ==
    /\ dom.state = "in"
    /\ dom' = [dom EXCEPT !.state = "out",
                          !.stop = Dominated(dom.i_w, dom.j_w, options.chain_drop_ratio,
                                             options.min_seed_len)]
    /\ UNCHANGED <<options, chunk, mems_chain, mems, mems_index, mem_chain_reads,
                   mem_chain_offsets, mem_chain_lengths, mem_n_chains, stats_n_chains,
                   pc, n_chains, chain_ranges, chain_weights, chain_index, chain_flags,
                   n_filtered_chains, task, passed, oob_access, calls, entry_stats>>

NextDom == DomTest

SpecDom == InitDom /\ [][NextDom]_vars

----------------------------------------------------------------------------
(* Properties *)

\* the sub-range of read r in the chain table
ReadBegin(r) == lower_bound(r, mem_chain_reads, n_chains)
ReadEnd(r)   == upper_bound(r, mem_chain_reads, n_chains)

\* the chains flagged kept
Kept == {c \in 0..(n_chains - 1) : chain_flags[c] = 1}

\* the seed spans of chain c, and the coordinates they cover
SeedsOf(c) ==
    {mems[mems_index[k]] :
        k \in mem_chain_offsets[c]..(mem_chain_offsets[c] + mem_chain_lengths[c] - 1)}
Covered(c) == {x \in 0..MaxCoord : \E sp \in SeedsOf(c) : sp[1] <= x /\ x < sp[2]}

\* C1: in chain_filter_kernel, whatever the position begin of the read's
\* sub-range, every ranked chain after the first whose inner scan completes
\* without the dominance break is flagged kept and counted in n.
C1_CompletedScanAccepts ==
    pc = "filter" =>
        \A r \in ChunkReads :
            task[r].pc = "loop" =>
                /\ \A p \in passed[r] : chain_flags[chain_index[p]] = 1
                /\ task[r].n = 1 + Cardinality(passed[r])

\* C2: after a call of filter_chains on a chunk with zero seeds the output
\* chain count mem->n_chains is 0 and the kept-chain statistic is unchanged.
C2_EmptyChunkZeroChains ==
    (pc = "returned" /\ n_mems = 0) =>
        (mem_n_chains = 0 /\ stats_n_chains = entry_stats)

\* C3: the thread of a read that owns no chain stores to no element of
\* chain_flags and loads no element of chain_index at or after n_chains.
C3_NoChainNoWrite ==
    [][\A r \in ChunkReads :
          (FilterStart(r) /\ ReadBegin(r) = ReadEnd(r)) =>
              (chain_flags' = chain_flags /\ oob_access' = oob_access)]_vars

\* C4: chain_coverage_kernel writes, for every chain, a weight equal to the
\* length of the union of the chain's seed intervals, the range [min a, max b),
\* and the chain's read id in the high half of the key.
C4_WeightIsUnionLength ==
    pc = "sort" =>
        \A c \in 0..(n_chains - 1) :
            /\ LoBits(chain_weights[c]) = Cardinality(Covered(c))
            /\ \E lo \in SeedsOf(c) : \E hi \in SeedsOf(c) :
                  /\ \A sp \in SeedsOf(c) : lo[1] <= sp[1] /\ sp[2] <= hi[2]
                  /\ chain_ranges[c] = <<lo[1], hi[2]>>
            /\ hi_bits_functor(chain_weights[c]) = mem_chain_reads[c]

\* C4 witness: a chain of three seeds with a touching pair and a nested pair
\* has been given its weight
C4_Witness ==
    /\ pc = "sort"
    /\ \E c \in 0..(n_chains - 1) :
          /\ mem_chain_lengths[c] = 3
          /\ \E s, t \in SeedsOf(c) : s[2] = t[1]
          /\ \E s, t \in SeedsOf(c) : s # t /\ s[1] <= t[1] /\ t[2] <= s[2]
          /\ \E s, t \in SeedsOf(c) : s[1] < t[1] /\ t[1] < s[2] /\ s[2] < t[2]

\* C5: the ranked sub-range [lower_bound, upper_bound) of a read holds that
\* read's chains, the chain chain_index[begin] its thread marks belongs to the
\* read, and after the kernel every read with a chain has a chain flagged kept.
C5_ReadKeepsOneChain ==
    /\ pc = "filter" =>
          \A r \in ChunkReads :
              /\ \A p \in ReadBegin(r)..(ReadEnd(r) - 1) :
                    /\ mem_chain_reads[chain_index[p]] = r
                    /\ hi_bits_functor(chain_weights[p]) = r
              /\ (task[r].pc = "loop" /\ task[r].begin < task[r].end) =>
                    chain_flags[chain_index[task[r].begin]] = 1
    /\ pc = "compact_reads" =>
          \A r \in ChunkReads :
              (\E c \in 0..(n_chains - 1) : mem_chain_reads[c] = r) =>
                  (\E c \in Kept : mem_chain_reads[c] = r)

\* C5 witness: the kernel is over, a read with one chain kept it and another
\* read kept one of its chains and not another
C5_Witness ==
    /\ pc = "compact_reads"
    /\ \E r \in ChunkReads : ReadEnd(r) = ReadBegin(r) + 1
    /\ \E c \in Kept : \E d \in (0..(n_chains - 1)) \ Kept :
          mem_chain_reads[c] = mem_chain_reads[d]

\* C6: the first ranked chain of a read, which the kernel keeps
\* unconditionally, has the maximum weight among the read's chains.
C6_FirstRankedIsHeaviest ==
    pc = "filter" =>
        \A r \in ChunkReads :
            \A p \in ReadBegin(r)..(ReadEnd(r) - 1) :
                LoBits(chain_weights[p]) <= LoBits(chain_weights[ReadBegin(r)])

\* C7: after the grouping pass the (chain_offsets, chain_lengths) pairs tile
\* [0, n_seeds), every length is at least 1, the chains are in ascending
\* chain-identifier order and chain_reads is non-decreasing.
C7_ChainsTileSeeds ==
    pc = "coverage" =>
        /\ n_chains >= 1
        /\ mem_chain_offsets[0] = 0
        /\ \A k \in 0..(n_chains - 2) :
              /\ mem_chain_offsets[k + 1] = mem_chain_offsets[k] + mem_chain_lengths[k]
              /\ U64Less(mems_chain[mem_chain_offsets[k]], mems_chain[mem_chain_offsets[k + 1]])
              /\ mem_chain_reads[k] <= mem_chain_reads[k + 1]
        /\ mem_chain_offsets[n_chains - 1] + mem_chain_lengths[n_chains - 1] = n_mems
        /\ \A k \in 0..(n_chains - 1) :
              /\ mem_chain_lengths[k] >= 1
              /\ mem_chain_reads[k] = hi_bits_functor(mems_chain[mem_chain_offsets[k]])
              /\ \A m \in mem_chain_offsets[k]..(mem_chain_offsets[k] + mem_chain_lengths[k] - 1) :
                    mems_chain[m] = mems_chain[mem_chain_offsets[k]]

\* C7 witness: the grouping pass made two chains or more, one of several seeds
C7_Witness ==
    /\ pc = "coverage"
    /\ n_chains >= 2
    /\ \E k \in 0..(n_chains - 1) : mem_chain_lengths[k] >= 2

\* the chain tables before the filter, from the seeds of the chunk
PreFilter == GroupChains(n_mems, mems_chain, EmptyArray, EmptyArray, EmptyArray)

\* the p-th (from 0) kept chain
KeptAt(p) == CHOOSE c \in Kept : Cardinality({d \in Kept : d < c}) = p

\* C8: after the compaction pass the output chain count is the number of
\* flagged chains, at most n_chains, and the first entries of chain_reads,
\* chain_offsets and chain_lengths are the entries of the flagged chains
\* before the filter, in their order, position by position.
C8_CompactionKeepsFlagged ==
    (pc = "returned" /\ n_mems # 0) =>
        /\ n_filtered_chains = Cardinality(Kept)
        /\ mem_n_chains = n_filtered_chains
        /\ n_filtered_chains <= n_chains
        /\ \A p \in 0..(n_filtered_chains - 1) :
              /\ mem_chain_reads[p] = PreFilter.chain_reads[KeptAt(p)]
              /\ mem_chain_offsets[p] = PreFilter.chain_offsets[KeptAt(p)]
              /\ mem_chain_lengths[p] = PreFilter.chain_lengths[KeptAt(p)]

\* C8 witness: the tables were compacted around a dropped chain that sat
\* before a kept one
C8_Witness ==
    /\ pc = "returned"
    /\ n_mems # 0
    /\ \E c \in Kept : \E d \in (0..(n_chains - 1)) \ Kept : d < c

\* the relative and the absolute gap of the dominance test, in exact arithmetic
RelativeGap ==
    dom.i_w * options.chain_drop_ratio.den < dom.j_w * options.chain_drop_ratio.num
AbsoluteGap == dom.j_w - dom.i_w >= 2 * options.min_seed_len
AtRatio ==
    dom.i_w * options.chain_drop_ratio.den = dom.j_w * options.chain_drop_ratio.num
OneBelowRatio ==
    (dom.i_w + 1) * options.chain_drop_ratio.den = dom.j_w * options.chain_drop_ratio.num

====
